---- MODULE Spec2Model ----
(***************************************************************************)
(* Model of the confession spreadsheet client, src/bot/google.py:          *)
(* Sheet (get_data, add_row, delete_rows) and ConfessionsSheet             *)
(* (get_ready_confessions, archive_confessions and its two helpers).       *)
(*                                                                         *)
(* The remote spreadsheet is the environment.  Its two worksheets are the  *)
(* variables source (the confession pool, "Form Responses 1", worksheet id *)
(* CONFESSION_SHEET_ID) and archive ("Archive", worksheet id               *)
(* ARCHIVE_SHEET_ID), each the sequence of value rows the service returns  *)
(* for the range.  Every remote call either succeeds or raises; a raise is *)
(* never caught by the client.                                             *)
(***************************************************************************)
EXTENDS Integers, Sequences, FiniteSets, TLC

VARIABLES
    source,         \* rows of the confession worksheet
    archive,        \* rows of the archive worksheet
    now,            \* wall clock: seconds elapsed since ClockBase
    pc,             \* where the caller stands: idle, fetched, append, delete, returned, raised
    op,             \* the public method running or last run
    result,         \* return value of get_ready_confessions
    confessions,    \* argument of archive_confessions
    number,         \* records of confessions the for loop has finished
    line_numbers,   \* local of _delete_confessions_from_pool
    body,           \* "requests" of the batch delete_rows built last
    target,         \* worksheet id that batch was addressed to
    rows_arg,       \* rows argument of delete_rows
    err,            \* exception that reached the caller ("none" if none)
    calls,          \* history: remote endpoints called, in order
    stamps,         \* history: clock reading of each successful append
    source0,        \* history: source when the running method was called
    archive0        \* history: archive when the running method was called

vars == <<source, archive, now, pc, op, result, confessions, number,
          line_numbers, body, target, rows_arg, err, calls, stamps,
          source0, archive0>>

(***************************************************************************)
(* Program constants.                                                      *)
(***************************************************************************)
CONFESSION_SHEET_ID == "444158458"
ARCHIVE_SHEET_ID == "1557599273"
CONFESSION_READY_LENGTH == 3
ROWS_DIMENSION == "ROWS"
DATE_RECEIVED_INDEX == 0
CONFESSION_INDEX == 1

\* The attributes instances of ConfessionsSheet have (class Sheet and its subclass).
SheetAttributes ==
    {"id", "credentials", "connection", "service", "_get_credentials",
     "get_data", "add_row", "delete_rows", "get_ready_confessions",
     "archive_confessions", "_add_confession_to_archive",
     "_delete_confessions_from_pool"}

(***************************************************************************)
(* Bounds of the model.                                                    *)
(***************************************************************************)
MaxRows == 3        \* rows a worksheet holds initially
MaxConf == 2        \* records in an arbitrary argument of archive_confessions
MaxDel == 3         \* row numbers in an argument of delete_rows
MaxClock == 1       \* seconds the clock may advance

\* Row numbers a caller may name: one more than any row that exists.
RowNumbers == 1..(MaxRows + 1)

\* Raw rows the confession range may return: lengths 0 to 4, ready rows that
\* differ in their data, in their marker only, and one whose cells all equal
\* its marker.
RowPool ==
    { <<>>, <<"d1">>, <<"d1", "c1">>, <<"d2", "c2">>,
      <<"d1", "c1", "x">>, <<"d1", "c1", "y">>, <<"d2", "c2", "y">>,
      <<"x", "x", "x">>, <<"d1", "c1", "x", "e">> }

\* The two-row pool used where only positions matter.
SmallPool == { <<"d1", "c1">>, <<"d2", "c2", "y">> }

\* The pool used where only the number of rows matters.
ReadyPool == { <<"d2", "c2", "y">> }

Sheets(pool, n) == UNION { [1..k -> pool] : k \in 0..n }

OldArchiveRow == <<"d0", <<1, 1, 2017, 0, 0, 0>>, "c0">>

ArchiveInits == { <<>>, <<OldArchiveRow>> }

ConfessionPool ==
    [DatePublished : {"d1", "d2"}, Confession : {"c1"}, LineNumber : RowNumbers]

ConfessionLists == UNION { [1..k -> ConfessionPool] : k \in 0..MaxConf }

RowLists == UNION { [1..k -> RowNumbers] : k \in 0..MaxDel }

(***************************************************************************)
(* datetime.datetime.now() and strftime(PUBLISHED_TIME_FORMAT).            *)
(***************************************************************************)
ClockBase == [year |-> 2017, month |-> 2, day |-> 28,
              hour |-> 23, minute |-> 59, second |-> 59]

DaysInMonth == <<31, 28, 31, 30, 31, 30, 31, 31, 30, 31, 30, 31>>

\* The datetime t seconds after ClockBase (t below one day).
DateTimeAt(t) ==
    LET secs == ClockBase.second + t
        mins == ClockBase.minute + (secs \div 60)
        hrs  == ClockBase.hour + (mins \div 60)
        d    == ClockBase.day + (hrs \div 24)
        over == d > DaysInMonth[ClockBase.month]
    IN  [year   |-> ClockBase.year,
         month  |-> IF over THEN ClockBase.month + 1 ELSE ClockBase.month,
         day    |-> IF over THEN d - DaysInMonth[ClockBase.month] ELSE d,
         hour   |-> hrs % 24,
         minute |-> mins % 60,
         second |-> secs % 60]

RECURSIVE DaysBefore(_)
DaysBefore(month) ==
    IF month = 1 THEN 0 ELSE DaysInMonth[month - 1] + DaysBefore(month - 1)

\* %j
DayOfYear(dt) == DaysBefore(dt.month) + dt.day

\* "%m/%j/%Y %H:%M:%S": the fields of the formatted text, in its order.
strftime(dt) == <<dt.month, DayOfYear(dt), dt.year, dt.hour, dt.minute, dt.second>>

(***************************************************************************)
(* Sheet.delete_rows: the batch it builds.                                 *)
(***************************************************************************)
SetOf(rows) == { rows[k] : k \in DOMAIN rows }

RECURSIVE SortedReverse(_)
SortedReverse(S) ==
    IF S = {} THEN <<>>
    ELSE LET m == CHOOSE x \in S : \A y \in S : y <= x
         IN  <<m>> \o SortedReverse(S \ {m})

RECURSIVE SortedAscending(_)
SortedAscending(S) ==
    IF S = {} THEN <<>>
    ELSE LET m == CHOOSE x \in S : \A y \in S : x <= y
         IN  <<m>> \o SortedAscending(S \ {m})

RECURSIVE InsertDescending(_, _)
InsertDescending(x, s) ==
    IF s = <<>> THEN <<x>>
    ELSE IF x >= Head(s) THEN <<x>> \o s
    ELSE <<Head(s)>> \o InsertDescending(x, Tail(s))

RECURSIVE SortDescendingList(_)
SortDescendingList(rows) ==
    IF rows = <<>> THEN <<>>
    ELSE InsertDescending(Head(rows), SortDescendingList(Tail(rows)))

\* Mutant: sorts ascending.
SortedRowsAscending(rows) == SortedAscending(SetOf(rows))

\* Mutant: sorts descending without removing duplicates.
SortedRowsKeepDuplicates(rows) == SortDescendingList(rows)

\* rows = sorted(list(set(rows)), reverse=True)
SortedRows(rows) == SortedReverse(SetOf(rows))

DeleteRowRequest(sheet_id, row) ==
    [deleteDimension |->
        [range |-> [sheetId    |-> sheet_id,
                    dimension  |-> ROWS_DIMENSION,
                    startIndex |-> row - 1,
                    endIndex   |-> row]]]

\* body["requests"] after the for loop of delete_rows.
BuildRequests(sheet_id, rows) ==
    LET sorted == SortedRows(rows)
    IN  [k \in 1..Len(sorted) |-> DeleteRowRequest(sheet_id, sorted[k])]

(***************************************************************************)
(* The remote batchUpdate endpoint: one deleteDimension request removes    *)
(* the rows whose 0-based index lies in [startIndex, endIndex); the        *)
(* requests of a batch are applied one after another, in the order listed. *)
(* A row number beyond the last value row names an empty grid row, whose   *)
(* removal changes no value.                                               *)
(***************************************************************************)
RECURSIVE KeepOutside(_, _, _, _)
KeepOutside(sheet, k, startIndex, endIndex) ==
    IF k > Len(sheet) THEN <<>>
    ELSE (IF startIndex <= k - 1 /\ k - 1 < endIndex THEN <<>> ELSE <<sheet[k]>>)
         \o KeepOutside(sheet, k + 1, startIndex, endIndex)

ApplyDeleteDimension(sheet, request) ==
    LET range == request.deleteDimension.range
    IN  KeepOutside(sheet, 1, range.startIndex, range.endIndex)

RECURSIVE ApplyBatch(_, _, _)
ApplyBatch(sheet, sheet_id, requests) ==
    IF requests = <<>> THEN sheet
    ELSE LET request == Head(requests)
             next == IF request.deleteDimension.range.sheetId = sheet_id
                          /\ request.deleteDimension.range.dimension = ROWS_DIMENSION
                     THEN ApplyDeleteDimension(sheet, request)
                     ELSE sheet
         IN  ApplyBatch(next, sheet_id, Tail(requests))

(***************************************************************************)
(* ConfessionsSheet.get_ready_confessions.                                 *)
(***************************************************************************)
\* Mutant: a row with more than three cells counts as ready too.
IsReadyAtLeast(confession) == Len(confession) >= CONFESSION_READY_LENGTH

\* len(confession) == CONFESSION_READY_LENGTH
IsReady(confession) == Len(confession) = CONFESSION_READY_LENGTH

\* Mutant: the marker cell is stored as the confession text.
ConfessionDataWithMarker(no, confession) ==
    [DatePublished |-> confession[DATE_RECEIVED_INDEX + 1],
     Confession    |-> confession[CONFESSION_INDEX + 2],
     LineNumber    |-> no + 1]

\* The dict built for the row at 0-based position no (Python indexes from 0,
\* a TLA+ sequence from 1).
ConfessionData(no, confession) ==
    [DatePublished |-> confession[DATE_RECEIVED_INDEX + 1],
     Confession    |-> confession[CONFESSION_INDEX + 1],
     LineNumber    |-> no + 1]

\* The for loop over enumerate(raw_confessions), from position no on.
RECURSIVE ProcessFrom(_, _)
ProcessFrom(raw_confessions, no) ==
    IF no >= Len(raw_confessions) THEN <<>>
    ELSE LET confession == raw_confessions[no + 1]
         IN  (IF IsReady(confession)
              THEN <<ConfessionData(no, confession)>>
              ELSE <<>>)
             \o ProcessFrom(raw_confessions, no + 1)

ProcessedConfessions(raw_confessions) == ProcessFrom(raw_confessions, 0)

(***************************************************************************)
(* ConfessionsSheet.archive_confessions and its helpers.                   *)
(***************************************************************************)
\* Mutant: the line number is written into the archive row.
ArchiveRowWithLine(confession, t) ==
    <<confession.DatePublished, strftime(DateTimeAt(t)), confession.Confession,
      confession.LineNumber>>

\* row of _add_confession_to_archive, the clock reading t.
ArchiveRow(confession, t) ==
    <<confession.DatePublished, strftime(DateTimeAt(t)), confession.Confession>>

\* Mutant: the loop is left one record early.
LoopDoneEarly(done, list) == done >= Len(list) - 1

\* The for loop of archive_confessions is exhausted after `done` records.
LoopDone(done, list) == done >= Len(list)

\* line_numbers of _delete_confessions_from_pool
LineNumbers(list) == [k \in 1..Len(list) |-> list[k].LineNumber]

(***************************************************************************)
(* Initial states.                                                         *)
(***************************************************************************)
InitLocals ==
    /\ now = 0
    /\ pc = "idle"
    /\ op = "none"
    /\ result = <<>>
    /\ confessions = <<>>
    /\ number = 0
    /\ line_numbers = <<>>
    /\ body = <<>>
    /\ target = "none"
    /\ rows_arg = <<>>
    /\ err = "none"
    /\ calls = <<>>
    /\ stamps = <<>>
    /\ source0 = source
    /\ archive0 = archive

Init ==
    /\ source \in Sheets(RowPool, MaxRows)
    /\ archive \in ArchiveInits
    /\ InitLocals

InitSmall ==
    /\ source \in Sheets(SmallPool, MaxRows)
    /\ archive \in ArchiveInits
    /\ InitLocals

InitArchive ==
    /\ source \in Sheets(ReadyPool, MaxRows)
    /\ archive \in ArchiveInits
    /\ InitLocals

(***************************************************************************)
(* Actions.                                                                *)
(***************************************************************************)
\* get_ready_confessions, the get call answered.
GetReadyConfessions ==
    /\ pc = "idle"
    /\ op' = "get_ready_confessions"
    /\ calls' = Append(calls, "get")
    /\ result' = ProcessedConfessions(source)
    /\ pc' = "fetched"
    /\ source0' = source
    /\ archive0' = archive
    /\ UNCHANGED <<source, archive, now, confessions, number, line_numbers,
                   body, target, rows_arg, err, stamps>>

\* get_ready_confessions, the get call raising.
GetDataFails ==
    /\ pc = "idle"
    /\ op' = "get_ready_confessions"
    /\ calls' = Append(calls, "get")
    /\ err' = "HttpError"
    /\ pc' = "raised"
    /\ source0' = source
    /\ archive0' = archive
    /\ UNCHANGED <<source, archive, now, result, confessions, number,
                   line_numbers, body, target, rows_arg, stamps>>

\* archive_confessions(list) entered.
EnterArchive(list) ==
    /\ op' = "archive_confessions"
    /\ confessions' = list
    /\ number' = 0
    /\ pc' = IF LoopDone(0, list) THEN "delete" ELSE "append"
    /\ source0' = source
    /\ archive0' = archive
    /\ UNCHANGED <<source, archive, now, result, line_numbers, body, target,
                   rows_arg, err, calls, stamps>>

\* The caller hands the fetched records to archive_confessions.
ArchiveFetched ==
    /\ pc = "fetched"
    /\ EnterArchive(result)

\* The caller hands any list of records to archive_confessions.
ArchiveAny ==
    /\ pc = "idle"
    /\ \E list \in ConfessionLists : EnterArchive(list)

\* Mutant: a failed append is swallowed and the loop goes on.
AddRowFailsSwallowed ==
    /\ pc = "append"
    /\ calls' = Append(calls, "append")
    /\ number' = number + 1
    /\ pc' = IF LoopDone(number + 1, confessions) THEN "delete" ELSE "append"
    /\ UNCHANGED <<source, archive, now, op, result, confessions, line_numbers,
                   body, target, rows_arg, err, stamps, source0, archive0>>

\* _add_confession_to_archive for the next record, the append call answered.
AddConfessionToArchive ==
    /\ pc = "append"
    /\ \E t \in now..MaxClock :
          /\ now' = t
          /\ stamps' = Append(stamps, t)
          /\ archive' = Append(archive, ArchiveRow(confessions[number + 1], t))
    /\ calls' = Append(calls, "append")
    /\ number' = number + 1
    /\ pc' = IF LoopDone(number + 1, confessions) THEN "delete" ELSE "append"
    /\ UNCHANGED <<source, op, result, confessions, line_numbers, body, target,
                   rows_arg, err, source0, archive0>>

\* _add_confession_to_archive for the next record, the append call raising.
AddRowFails ==
    /\ pc = "append"
    /\ calls' = Append(calls, "append")
    /\ err' = "HttpError"
    /\ pc' = "raised"
    /\ UNCHANGED <<source, archive, now, op, result, confessions, number,
                   line_numbers, body, target, rows_arg, stamps, source0, archive0>>

\* _delete_confessions_from_pool: line_numbers is built, then self.delete_row
\* is looked up; instances have no such attribute (the method is delete_rows).
DeleteConfessionsFromPool ==
    /\ pc = "delete"
    /\ line_numbers' = LineNumbers(confessions)
    /\ "delete_row" \notin SheetAttributes
    /\ err' = "AttributeError"
    /\ pc' = "raised"
    /\ UNCHANGED <<source, archive, now, op, result, confessions, number,
                   body, target, rows_arg, calls, stamps, source0, archive0>>

\* delete_rows(sheet_id, rows), the batchUpdate call answered.
DeleteRows ==
    /\ pc = "idle"
    /\ \E sheet_id \in {CONFESSION_SHEET_ID, ARCHIVE_SHEET_ID}, rows \in RowLists :
          LET requests == BuildRequests(sheet_id, rows)
          IN  /\ rows_arg' = rows
              /\ target' = sheet_id
              /\ body' = requests
              /\ source' = ApplyBatch(source, CONFESSION_SHEET_ID, requests)
              /\ archive' = ApplyBatch(archive, ARCHIVE_SHEET_ID, requests)
    /\ op' = "delete_rows"
    /\ calls' = Append(calls, "batchUpdate")
    /\ pc' = "returned"
    /\ source0' = source
    /\ archive0' = archive
    /\ UNCHANGED <<now, result, confessions, number, line_numbers, err, stamps>>

\* delete_rows(sheet_id, rows), the batchUpdate call raising: nothing is applied.
DeleteRowsFails ==
    /\ pc = "idle"
    /\ \E sheet_id \in {CONFESSION_SHEET_ID, ARCHIVE_SHEET_ID}, rows \in RowLists :
          /\ rows_arg' = rows
          /\ target' = sheet_id
          /\ body' = BuildRequests(sheet_id, rows)
    /\ op' = "delete_rows"
    /\ calls' = Append(calls, "batchUpdate")
    /\ err' = "HttpError"
    /\ pc' = "raised"
    /\ source0' = source
    /\ archive0' = archive
    /\ UNCHANGED <<source, archive, now, result, confessions, number,
                   line_numbers, stamps>>

(***************************************************************************)
(* Specifications.                                                         *)
(*   Spec         the workflow: fetch, then archive what was fetched.      *)
(*   SpecArchive  archive_confessions on any list of records.              *)
(*   SpecDelete   delete_rows on any worksheet and list of row numbers.    *)
(***************************************************************************)
Next ==
    \/ GetReadyConfessions
    \/ GetDataFails
    \/ ArchiveFetched
    \/ AddConfessionToArchive
    \/ AddRowFails
    \/ DeleteConfessionsFromPool

Spec == Init /\ [][Next]_vars

NextArchive ==
    \/ ArchiveAny
    \/ AddConfessionToArchive
    \/ AddRowFails
    \/ DeleteConfessionsFromPool

SpecArchive == InitArchive /\ [][NextArchive]_vars

NextDelete ==
    \/ DeleteRows
    \/ DeleteRowsFails

SpecDelete == InitSmall /\ [][NextDelete]_vars

(***************************************************************************)
(* Vocabulary of the properties.                                           *)
(***************************************************************************)
\* The rows of sheet at the positions outside S, in their order.
Without(sheet, S) ==
    LET keep == { n \in DOMAIN sheet : n \notin S }
    IN  [k \in 1..Cardinality(keep) |->
            sheet[CHOOSE n \in keep : Cardinality({ m \in keep : m < n }) = k - 1]]

\* How many times the endpoint was called.
Count(endpoint) == Cardinality({ k \in DOMAIN calls : calls[k] = endpoint })

ArchiveEnded == op = "archive_confessions" /\ pc \in {"returned", "raised"}

Markers == {"x", "y", "z"}

(***************************************************************************)
(* C1: get_ready_confessions returns one record for each fetched row of    *)
(* exactly 3 cells and for no other row, in fetched order, the record of   *)
(* the row at 0-based position i carrying line number i + 1.               *)
(***************************************************************************)
ClassificationByShape ==
    pc = "fetched" =>
        LET ready == { n \in DOMAIN source : Len(source[n]) = 3 }
        IN  /\ Len(result) = Cardinality(ready)
            /\ \A k \in DOMAIN result : result[k].LineNumber \in ready
            /\ \A k \in DOMAIN result : \A l \in DOMAIN result :
                  k < l => result[k].LineNumber < result[l].LineNumber

\* A row of 4 cells and a shorter row are skipped, a ready row behind them is kept.
ClassificationWitness ==
    /\ pc = "fetched"
    /\ Len(source) = 3
    /\ Len(source[1]) = 4
    /\ Len(source[2]) < 3
    /\ Len(source[3]) = 3
    /\ Len(result) = 1
    /\ result[1].LineNumber = 3

(***************************************************************************)
(* C5: the record of a 3-cell row holds cell 0 as its date received and    *)
(* cell 1 as its text, and nothing of the marker in cell 2: the records    *)
(* are the same whatever the marker is.                                    *)
(***************************************************************************)
FieldMapping ==
    pc = "fetched" =>
        \A k \in DOMAIN result :
            LET n == result[k].LineNumber
                row == source[n]
            IN  /\ DOMAIN result[k] = {"DatePublished", "Confession", "LineNumber"}
                /\ result[k].DatePublished = row[1]
                /\ result[k].Confession = row[2]
                /\ \A m \in Markers :
                      ProcessedConfessions(
                          [source EXCEPT ![n] = <<row[1], row[2], m>>]) = result

\* The spec's example: a ready row at position 0 whose marker differs from its data.
FieldMappingWitness ==
    /\ pc = "fetched"
    /\ Len(source) >= 1
    /\ source[1] = <<"d1", "c1", "x">>
    /\ result[1] = [DatePublished |-> "d1", Confession |-> "c1", LineNumber |-> 1]

(***************************************************************************)
(* C4: delete_rows builds one request per distinct row number, in strictly *)
(* descending order, each for the index range [row - 1, row) of dimension  *)
(* ROWS on the given worksheet.                                            *)
(***************************************************************************)
DeletionBatchShape ==
    op = "delete_rows" =>
        /\ Len(body) = Cardinality(SetOf(rows_arg))
        /\ \A k \in DOMAIN body :
              LET range == body[k].deleteDimension.range
              IN  /\ range.endIndex \in SetOf(rows_arg)
                  /\ range.startIndex = range.endIndex - 1
                  /\ range.dimension = "ROWS"
                  /\ range.sheetId = target
        /\ \A k \in DOMAIN body : \A l \in DOMAIN body :
              k < l => body[k].deleteDimension.range.endIndex
                          > body[l].deleteDimension.range.endIndex

\* An unsorted argument with a duplicate: [2, 4, 2] gives requests for rows [4, 2].
DeletionBatchWitness ==
    /\ op = "delete_rows"
    /\ rows_arg = <<2, 4, 2>>
    /\ Len(body) = 2
    /\ body[1].deleteDimension.range.endIndex = 4
    /\ body[2].deleteDimension.range.endIndex = 2

(***************************************************************************)
(* C9: the requests of a delete_rows batch, applied in the order listed,   *)
(* remove exactly the rows that stood at the requested positions before    *)
(* the batch; the other rows stay, in their order, and the other worksheet *)
(* is untouched.                                                           *)
(***************************************************************************)
DeletionRemovesRequestedRows ==
    (op = "delete_rows" /\ pc = "returned") =>
        /\ target = CONFESSION_SHEET_ID =>
              /\ source = Without(source0, SetOf(rows_arg))
              /\ archive = archive0
        /\ target = ARCHIVE_SHEET_ID =>
              /\ archive = Without(archive0, SetOf(rows_arg))
              /\ source = source0

\* Rows 1 and 2 of three are named, unsorted and twice; only the third is left.
DeletionRemovesWitness ==
    /\ op = "delete_rows"
    /\ pc = "returned"
    /\ target = CONFESSION_SHEET_ID
    /\ rows_arg = <<1, 2, 1>>
    /\ Len(source0) = 3
    /\ source0[2] # source0[3]
    /\ source = <<source0[3]>>

(***************************************************************************)
(* C3: in a run of archive_confessions the appends are issued one per      *)
(* record in input order, and control reaches the deletion only once every *)
(* record has its archive entry.                                           *)
(***************************************************************************)
AppendsBeforeDeletion ==
    op = "archive_confessions" =>
        /\ number <= Len(confessions)
        /\ Len(archive) = Len(archive0) + number
        /\ \A k \in 1..number :
              /\ archive[Len(archive0) + k][1] = confessions[k].DatePublished
              /\ archive[Len(archive0) + k][3] = confessions[k].Confession
        /\ Count("append") \in {number, number + 1}
        /\ (pc = "delete" \/ err = "AttributeError" \/ Count("batchUpdate") > 0)
              => (number = Len(confessions) /\ Count("append") = Len(confessions))

\* Two different records are archived, in their order, before the deletion step.
AppendsBeforeDeletionWitness ==
    /\ op = "archive_confessions"
    /\ pc = "delete"
    /\ Len(confessions) = 2
    /\ confessions[1].DatePublished # confessions[2].DatePublished
    /\ Len(archive) = Len(archive0) + 2

FailurePropagates ==
    /\ err # "none" => pc = "raised"
    /\ (op = "archive_confessions" /\ pc = "raised") =>
          /\ source = source0
          /\ Count("batchUpdate") = 0
          /\ Len(archive) = Len(archive0) + number
          /\ SubSeq(archive, 1, Len(archive0)) = archive0
          /\ \A k \in 1..number :
                /\ archive[Len(archive0) + k][1] = confessions[k].DatePublished
                /\ archive[Len(archive0) + k][3] = confessions[k].Confession
          /\ err = "HttpError" =>
                /\ number < Len(confessions)
                /\ Count("append") = number + 1
          /\ err # "HttpError" =>
                /\ number = Len(confessions)
                /\ Count("append") = number

\* The second of two appends fails: one entry stays in the archive.
FailurePropagatesWitness ==
    /\ op = "archive_confessions"
    /\ pc = "raised"
    /\ err = "HttpError"
    /\ Len(confessions) = 2
    /\ number = 1
    /\ Len(archive) = Len(archive0) + 1
    /\ Count("append") = 2

(***************************************************************************)
(* C2: once archive_confessions is over, no remote call having failed, it  *)
(* has returned, every input record's line number is deleted from the      *)
(* confession worksheet, and that was done by exactly one batchUpdate      *)
(* call, issued after all appends.  Stated for the inputs on which a       *)
(* deletion shows: some record names a row the worksheet holds.            *)
(***************************************************************************)
ArchiveDeletesEveryLine ==
    (/\ ArchiveEnded
     /\ err # "HttpError"
     /\ \E k \in DOMAIN confessions : confessions[k].LineNumber \in DOMAIN source0) =>
        /\ pc = "returned"
        /\ source = Without(source0, SetOf(LineNumbers(confessions)))
        /\ Count("batchUpdate") = 1
        /\ calls[Len(calls)] = "batchUpdate"

(***************************************************************************)
(* C7: on empty input nothing changes and nothing fails: an empty fetched  *)
(* range gives no records, and archive_confessions([]) issues no append    *)
(* and at most an empty deletion batch, returns normally and leaves both   *)
(* worksheets as they were.                                                *)
(***************************************************************************)
EmptyInputIsNoOp ==
    /\ (pc = "fetched" /\ source = <<>>) => result = <<>>
    /\ (ArchiveEnded /\ confessions = <<>> /\ err # "HttpError") =>
          /\ pc = "returned"
          /\ err = "none"
          /\ Count("append") = 0
          /\ Count("batchUpdate") <= 1
          /\ body = <<>>
          /\ source = source0
          /\ archive = archive0

(***************************************************************************)
(* C10: end to end, fetch then archive of what was fetched, no remote call *)
(* having failed: the source holds exactly the rows that were not of       *)
(* length 3 at fetch time, in their order, and the archive has gained one  *)
(* entry per ready row, in fetched order, with that row's cells 0 and 1.   *)
(***************************************************************************)
EndToEndArchivesAndRemoves ==
    (ArchiveEnded /\ err # "HttpError") =>
        LET ready == { n \in DOMAIN source0 : Len(source0[n]) = 3 }
            kept == Without(source0, DOMAIN source0 \ ready)
        IN  /\ source = Without(source0, ready)
            /\ Len(archive) = Len(archive0) + Cardinality(ready)
            /\ \A k \in 1..Cardinality(ready) :
                  /\ archive[Len(archive0) + k][1] = kept[k][1]
                  /\ archive[Len(archive0) + k][3] = kept[k][2]

====
